---- MODULE Spec2Model ----
(***************************************************************************)
(* Model of the model-promotion workflow of the delivery-ETA MLOps         *)
(* repository: the MLflow model registry of "delivery-eta-model" as it is  *)
(* read and written by scripts/train.py, scripts/evaluate.py and           *)
(* scripts/deploy.py.  Each script run is one action: the scripts are      *)
(* launched one after the other (run_pipeline.py waits for each            *)
(* subprocess), so a run reads and writes the registry without another     *)
(* run in between.                                                         *)
(***************************************************************************)
EXTENDS Integers, Sequences, FiniteSets, TLC

\* Bounds of the model.
MaxVersions == 3
MaxRmse == 3

VARIABLES stage, rmse, endpoint, last, pl, ev, eph

vars == <<stage, rmse, endpoint, last, pl, ev, eph>>

\* stage[v]  : lifecycle stage of version v of "delivery-eta-model"
\* rmse[v]   : RMSE of version v on the fixed evaluation dataset
\* endpoint  : version served by "delivery-eta-endpoint" (0: none)
\* last      : record of the last script run
\* pl        : the pipeline runner: position in main, arguments, commands run
\* ev[p]     : evaluation process p when its registry calls are taken one by one
\* eph       : the endpoint phase of a deploy script, one SageMaker call at a time

Stages == {"None", "Staging", "Production", "Archived"}

Envs == {"SageMaker", "GitHubActions", "Local"}

Max(S) == CHOOSE x \in S : \A y \in S : y <= x

VersionsIn(reg, s) == {v \in 1..Len(reg) : reg[v] = s}

\* client.get_latest_versions(name, [s]): the highest version in stage s;
\* 0 stands for the empty list.
get_latest_versions(reg, s) ==
  IF VersionsIn(reg, s) = {} THEN 0 ELSE Max(VersionsIn(reg, s))

\* client.transition_model_version_stage(name, ver, s, archive_existing_versions)
transition_model_version_stage(reg, ver, s, archive_existing_versions) ==
  [v \in 1..Len(reg) |->
     IF v = ver THEN s
     ELSE IF archive_existing_versions /\ reg[v] = s THEN "Archived"
     ELSE reg[v]]

\* registered_model_name=... / mlflow.register_model: a new version, stage None
create_model_version(reg) == Append(reg, "None")

NoRun ==
  [script |-> "none", env |-> "none", fail |-> "none", outcome |-> "none",
   exit |-> 0, cand |-> 0, inc |-> 0, candMetric |-> 0, incMetric |-> 0,
   writes |-> 0, pre |-> <<>>]

RunRecord(script, env, fail, outcome, exit, cand, inc, cm, im, writes, pre) ==
  [script |-> script, env |-> env, fail |-> fail, outcome |-> outcome,
   exit |-> exit, cand |-> cand, inc |-> inc, candMetric |-> cm,
   incMetric |-> im, writes |-> writes, pre |-> pre]

----------------------------------------------------------------------------
\* scripts/evaluate.py

EvalFailures ==
  {"none", "download", "load_prod", "load_staging", "predict",
   "get_latest", "transition"}

\* A tie counts as an improvement.
ShouldPromote_NonStrict(stag_rmse, prod_rmse) == stag_rmse <= prod_rmse

\* line 24: if stag_rmse < prod_rmse
ShouldPromote(stag_rmse, prod_rmse) == stag_rmse < prod_rmse

\* The archive_existing_versions flag is left at its default.
EvalTransition_NoArchive(reg, ver) ==
  transition_model_version_stage(reg, ver, "Production", FALSE)

\* The promotion also archives the other Staging versions.
EvalTransition_ArchivesStaging(reg, ver) ==
  [v \in 1..Len(reg) |->
     IF v = ver THEN "Production"
     ELSE IF reg[v] \in {"Production", "Staging"} THEN "Archived"
     ELSE reg[v]]

\* line 26: transition to Production with archive_existing_versions=True
EvalTransition(reg, ver) ==
  transition_model_version_stage(reg, ver, "Production", TRUE)

\* The exception is caught and printed, the script ends normally.
EvalError_Swallowed(reg, fail, what, c, i) ==
  [reg |-> reg,
   rec |-> RunRecord("evaluate", "none", fail, what, 0, c, i, 0, 0, 0, reg)]

\* An uncaught exception ends the script: exit status 1, registry as it is.
EvalError(reg, fail, what, c, i) ==
  [reg |-> reg,
   rec |-> RunRecord("evaluate", "none", fail, what, 1, c, i, 0, 0, 0, reg)]

\* The whole script, top to bottom.
EvalRun(reg, met, fail) ==
  LET prodV == get_latest_versions(reg, "Production")
      stagV == get_latest_versions(reg, "Staging")
  IN
  IF fail = "download" THEN EvalError(reg, fail, "DownloadError", 0, 0)
  ELSE IF prodV = 0 THEN EvalError(reg, fail, "NoVersionInProduction", 0, 0)
  ELSE IF fail = "load_prod" THEN EvalError(reg, fail, "ArtifactLoadError", 0, prodV)
  ELSE IF stagV = 0 THEN EvalError(reg, fail, "NoVersionInStaging", 0, prodV)
  ELSE IF fail = "load_staging" THEN EvalError(reg, fail, "ArtifactLoadError", stagV, prodV)
  ELSE IF fail = "predict" THEN EvalError(reg, fail, "ScoringError", stagV, prodV)
  ELSE
    LET prod_rmse == met[prodV]
        stag_rmse == met[stagV]
    IN
    IF ShouldPromote(stag_rmse, prod_rmse) THEN
      IF fail \in {"get_latest", "transition"} THEN
        EvalError(reg, fail, "RegistryUnavailableError", stagV, prodV)
      ELSE
        LET ver == get_latest_versions(reg, "Staging")
        IN [reg |-> EvalTransition(reg, ver),
            rec |-> RunRecord("evaluate", "none", fail, "Promote", 0, ver, prodV,
                              stag_rmse, prod_rmse, 1, reg)]
    ELSE
      [reg |-> reg,
       rec |-> RunRecord("evaluate", "none", fail, "KeepIncumbent", 0, stagV, prodV,
                         stag_rmse, prod_rmse, 0, reg)]

\* One run of the script on the registry.
EvalEffect(fail) ==
  LET r == EvalRun(stage, rmse, fail)
  IN /\ stage' = r.reg
     /\ last' = r.rec
     /\ UNCHANGED <<rmse, endpoint, ev, eph>>

Evaluate ==
  \E fail \in EvalFailures : EvalEffect(fail) /\ UNCHANGED pl

----------------------------------------------------------------------------
\* scripts/train.py

TrainFailures == {"none", "register", "stage"}

\* get_latest_versions is called without a stage filter and the first entry
\* of its answer is the latest Production version when there is one.
TrainStage_NoStageFilter(reg) ==
  LET p == get_latest_versions(reg, "Production")
      ver == IF p # 0 THEN p ELSE get_latest_versions(reg, "None")
  IN IF ver = 0 THEN reg
     ELSE transition_model_version_stage(reg, ver, "Staging", FALSE)

\* lines 119-125 / 148-157: the latest version in stage None goes to Staging
TrainStage(reg) ==
  LET ver == get_latest_versions(reg, "None")
  IN IF ver = 0 THEN reg
     ELSE transition_model_version_stage(reg, ver, "Staging", FALSE)

\* train_model: registry after the run, exit status and number of stage writes
TrainRun(reg, env, fail) ==
  IF env = "SageMaker" THEN
    IF fail = "register" THEN [reg |-> reg, exit |-> 1, writes |-> 0, outcome |-> "RegisterError"]
    ELSE IF fail = "stage" THEN
      [reg |-> create_model_version(reg), exit |-> 1, writes |-> 0, outcome |-> "RegistryUnavailableError"]
    ELSE [reg |-> TrainStage(create_model_version(reg)), exit |-> 0, writes |-> 1, outcome |-> "Staged"]
  ELSE IF env = "GitHubActions" THEN
    IF fail = "register" THEN [reg |-> reg, exit |-> 1, writes |-> 0, outcome |-> "RegisterError"]
    ELSE IF fail = "stage" THEN
      [reg |-> create_model_version(reg), exit |-> 0, writes |-> 0, outcome |-> "Registered"]
    ELSE [reg |-> TrainStage(create_model_version(reg)), exit |-> 0, writes |-> 1, outcome |-> "Staged"]
  ELSE
    IF fail = "register" THEN [reg |-> reg, exit |-> 0, writes |-> 0, outcome |-> "NotRegistered"]
    ELSE [reg |-> create_model_version(reg), exit |-> 0, writes |-> 0, outcome |-> "Registered"]

\* One run of the script on the registry; m is the RMSE of the new model.
TrainEffect(env, fail, m) ==
  LET r == TrainRun(stage, env, fail)
  IN /\ stage' = r.reg
     /\ rmse' = IF Len(r.reg) > Len(stage) THEN Append(rmse, m) ELSE rmse
     /\ last' = RunRecord("train", env, fail, r.outcome, r.exit,
                          0, 0, 0, 0, r.writes, stage)
     /\ UNCHANGED <<endpoint, ev, eph>>

Train ==
  /\ Len(stage) < MaxVersions
  /\ \E env \in Envs, fail \in TrainFailures, m \in 1..MaxRmse :
       TrainEffect(env, fail, m) /\ UNCHANGED pl

----------------------------------------------------------------------------
\* scripts/deploy.py

DeployFailures ==
  {"none", "registry_prod", "registry_staging", "transition", "endpoint"}

\* The Staging version is promoted whether or not a Production version exists.
DeployPromotesStaging_Always(prodV) == TRUE

\* line 61: if not prod_versions
DeployPromotesStaging(prodV) == prodV = 0

\* The transition call is left out.
DeployTransition_Skipped(reg, ver) == reg

\* lines 70-74: transition to Production (archive_existing_versions defaults to False)
DeployTransition(reg, ver) ==
  transition_model_version_stage(reg, ver, "Production", FALSE)

DeployResult(reg, ep, outcome, exit, ver, writes) ==
  [reg |-> reg, ep |-> ep, outcome |-> outcome, exit |-> exit,
   ver |-> ver, writes |-> writes]

\* deploy_production_model and the __main__ block
DeployRun(reg, ep, fail) ==
  LET prodV == get_latest_versions(reg, "Production")
      stagV == get_latest_versions(reg, "Staging")
  IN
  IF fail = "registry_prod" THEN DeployResult(reg, ep, "RegistryNotAccessible", 1, 0, 0)
  ELSE IF DeployPromotesStaging(prodV) THEN
    IF fail = "registry_staging" THEN DeployResult(reg, ep, "DeploymentFailed", 1, 0, 0)
    ELSE IF stagV = 0 THEN DeployResult(reg, ep, "NoModels", 1, 0, 0)
    ELSE IF fail = "transition" THEN DeployResult(reg, ep, "DeploymentFailed", 1, stagV, 0)
    ELSE IF fail = "endpoint" THEN
      DeployResult(DeployTransition(reg, stagV), ep, "DeploymentFailed", 1, stagV, 1)
    ELSE DeployResult(DeployTransition(reg, stagV), stagV, "Deployed", 0, stagV, 1)
  ELSE
    IF fail = "endpoint" THEN DeployResult(reg, ep, "DeploymentFailed", 1, prodV, 0)
    ELSE DeployResult(reg, prodV, "Deployed", 0, prodV, 0)

\* One run of the script on the registry and the endpoint.
DeployEffect(fail) ==
  LET r == DeployRun(stage, endpoint, fail)
  IN /\ stage' = r.reg
     /\ endpoint' = r.ep
     /\ last' = RunRecord("deploy", "none", fail, r.outcome, r.exit,
                          r.ver, 0, 0, 0, r.writes, stage)
     /\ UNCHANGED <<rmse, ev, eph>>

Deploy ==
  \E fail \in DeployFailures : DeployEffect(fail) /\ UNCHANGED pl

----------------------------------------------------------------------------

\* run_pipeline.py

Modes == {"local", "sagemaker", "full"}

PipelineIdle ==
  [pc |-> "idle", mode |-> "local", skip |-> FALSE, log |-> <<>>, exit |-> 0]

\* Number of training commands of a run.
TrainingCommands(mode, skip) ==
  IF skip THEN 0 ELSE IF mode = "full" THEN 2 ELSE 1

\* run_command: the command and its return code are appended to the log
Logged(log, command, returncode) == Append(log, <<command, returncode>>)

\* A failed training command ends the run in every mode.
AbortsOnTrainingFailure_AnyMode(mode, ok) == ~ok

\* lines 91-96: sys.exit(1) when the training command of local or sagemaker
\* mode fails; lines 97-102: full mode ignores the results
AbortsOnTrainingFailure(mode, ok) == mode \in {"local", "sagemaker"} /\ ~ok

\* A failed evaluation ends the run.
AfterEvaluation_StopOnFailure(ok) == IF ok THEN "deploy" ELSE "done"

\* lines 107-108: a failed evaluation is reported and the run goes on
AfterEvaluation(ok) == "deploy"

\* Monitoring runs in full mode whatever the deployment returned.
AfterDeployment_AlwaysMonitor(mode, ok) ==
  IF mode = "full" THEN "monitor" ELSE "done"

\* lines 113-121: a failed deployment ends the run; full mode goes on to
\* monitoring
AfterDeployment(mode, ok) ==
  IF ~ok THEN "done" ELSE IF mode = "full" THEN "monitor" ELSE "done"

\* main, lines 66-86: arguments parsed, a new run starts
PipelineStart ==
  /\ pl.pc \in {"idle", "done"}
  /\ \E mode \in Modes, skip \in BOOLEAN :
       /\ Len(stage) + TrainingCommands(mode, skip) <= MaxVersions
       /\ pl' = [pc |-> IF skip THEN "evaluate" ELSE "train", mode |-> mode,
                 skip |-> skip, log |-> <<>>, exit |-> 0]
  /\ UNCHANGED <<stage, rmse, endpoint, last, ev, eph>>

\* run_local_training, lines 91-93 and 100
PipelineLocalTraining ==
  /\ pl.pc = "train" /\ pl.mode \in {"local", "full"}
  /\ \E env \in Envs, fail \in TrainFailures, m \in 1..MaxRmse :
       TrainEffect(env, fail, m)
  /\ LET ok == last'.exit = 0
     IN pl' = [pl EXCEPT
                 !.log = Logged(@, "train.py", last'.exit),
                 !.pc = IF AbortsOnTrainingFailure(pl.mode, ok) THEN "done"
                        ELSE IF pl.mode = "full" THEN "train2" ELSE "evaluate",
                 !.exit = IF AbortsOnTrainingFailure(pl.mode, ok) THEN 1 ELSE 0]

SageMakerTrainFailures == TrainFailures \cup {"launch"}

\* scripts/sagemaker_train.py: the job runs train.py in the SageMaker
\* environment; the launcher fails when the job cannot be launched or fails
SageMakerTrainEffect(fail, m) ==
  IF fail = "launch"
  THEN /\ last' = RunRecord("train", "SageMaker", fail, "LaunchError", 1,
                            0, 0, 0, 0, 0, stage)
       /\ UNCHANGED <<stage, rmse, endpoint, ev, eph>>
  ELSE TrainEffect("SageMaker", fail, m)

\* run_sagemaker_training, lines 94-96 and 102
PipelineSageMakerTraining ==
  /\ \/ pl.pc = "train" /\ pl.mode = "sagemaker"
     \/ pl.pc = "train2"
  /\ \E fail \in SageMakerTrainFailures, m \in 1..MaxRmse :
       SageMakerTrainEffect(fail, m)
  /\ LET ok == last'.exit = 0
     IN pl' = [pl EXCEPT
                 !.log = Logged(@, "sagemaker_train.py", last'.exit),
                 !.pc = IF AbortsOnTrainingFailure(pl.mode, ok) THEN "done"
                        ELSE "evaluate",
                 !.exit = IF AbortsOnTrainingFailure(pl.mode, ok) THEN 1 ELSE 0]

\* run_evaluation, lines 104-108
PipelineEvaluation ==
  /\ pl.pc = "evaluate"
  /\ \E fail \in EvalFailures : EvalEffect(fail)
  /\ pl' = [pl EXCEPT !.log = Logged(@, "evaluate.py", last'.exit),
                      !.pc = AfterEvaluation(last'.exit = 0)]

\* run_deployment, lines 110-115
PipelineDeployment ==
  /\ pl.pc = "deploy"
  /\ \E fail \in DeployFailures : DeployEffect(fail)
  /\ LET ok == last'.exit = 0
     IN pl' = [pl EXCEPT !.log = Logged(@, "deploy.py", last'.exit),
                        !.pc = AfterDeployment(pl.mode, ok),
                        !.exit = IF ok THEN 0 ELSE 1]

\* run_monitoring, lines 117-121: the result of scripts/monitor.py is ignored
PipelineMonitoring ==
  /\ pl.pc = "monitor"
  /\ \E returncode \in {0, 1} :
       pl' = [pl EXCEPT !.log = Logged(@, "monitor.py", returncode),
                        !.pc = "done"]
  /\ UNCHANGED <<stage, rmse, endpoint, last, ev, eph>>

\* scripts/evaluate.py, one registry call at a time, for evaluation runs that
\* overlap each other or a training run

Evaluators == {1, 2}

EvaluatorIdle ==
  [pc |-> "idle", prodV |-> 0, stagV |-> 0, ver |-> 0, outcome |-> "none"]

EvFinished(p, outcome) ==
  ev' = [ev EXCEPT ![p].pc = "done", ![p].outcome = outcome]

\* lines 1-14: the script starts and reads the dataset
EvStart(p) ==
  /\ ev[p].pc \in {"idle", "done"}
  /\ ev' = [ev EXCEPT ![p] = [EvaluatorIdle EXCEPT !.pc = "load_prod"]]
  /\ UNCHANGED <<stage, rmse, endpoint, last, pl, eph>>

\* line 16: load_model("models:/delivery-eta-model/Production")
EvLoadProduction(p) ==
  /\ ev[p].pc = "load_prod"
  /\ LET v == get_latest_versions(stage, "Production")
     IN IF v = 0 THEN EvFinished(p, "NoVersionInProduction")
        ELSE ev' = [ev EXCEPT ![p].pc = "load_staging", ![p].prodV = v]
  /\ UNCHANGED <<stage, rmse, endpoint, last, pl, eph>>

\* line 17: load_model("models:/delivery-eta-model/Staging")
EvLoadStaging(p) ==
  /\ ev[p].pc = "load_staging"
  /\ LET v == get_latest_versions(stage, "Staging")
     IN IF v = 0 THEN EvFinished(p, "NoVersionInStaging")
        ELSE ev' = [ev EXCEPT ![p].pc = "score", ![p].stagV = v]
  /\ UNCHANGED <<stage, rmse, endpoint, last, pl, eph>>

\* lines 19-24 and 28-29: both models are scored and the metrics compared
EvScore(p) ==
  /\ ev[p].pc = "score"
  /\ IF ShouldPromote(rmse[ev[p].stagV], rmse[ev[p].prodV])
     THEN ev' = [ev EXCEPT ![p].pc = "get_latest"]
     ELSE EvFinished(p, "KeepIncumbent")
  /\ UNCHANGED <<stage, rmse, endpoint, last, pl, eph>>

\* line 25: get_latest_versions(...)[0]; an empty answer raises IndexError
EvGetLatest(p) ==
  /\ ev[p].pc = "get_latest"
  /\ LET v == get_latest_versions(stage, "Staging")
     IN IF v = 0 THEN EvFinished(p, "IndexError")
        ELSE ev' = [ev EXCEPT ![p].pc = "transition", ![p].ver = v]
  /\ UNCHANGED <<stage, rmse, endpoint, last, pl, eph>>

\* lines 26-27: the transition call
EvTransitionStep(p) ==
  /\ ev[p].pc = "transition"
  /\ stage' = EvalTransition(stage, ev[p].ver)
  /\ EvFinished(p, "Promote")
  /\ UNCHANGED <<rmse, endpoint, last, pl, eph>>

----------------------------------------------------------------------------
\* scripts/deploy.py lines 159-219 and scripts/deploy_backup.py lines 151-196:
\* the endpoint phase, one call to the SageMaker service at a time.  The
\* service answers each call as it likes.

DeployScripts == {"deploy.py", "deploy_backup.py"}

EndpointStatuses ==
  {"Creating", "InService", "Failed", "OutOfService", "Deleting", "Unknown",
   "NotFound"}

\* for _ in range(60)
PollLimit == 60

EndpointIdle ==
  [pc |-> "idle", script |-> "deploy.py", path |-> "none", status |-> "none",
   i |-> 0, polls |-> 0, deletes |-> 0, creates |-> 0, result |-> "none"]

\* The loop runs one iteration more.
LoopContinues_OffByOne(i) == i <= PollLimit

\* the for statement: another iteration while fewer than 60 were run
LoopContinues(i) == i < PollLimit

\* deploy.py line 190: the statement after the loop, reached by break and
\* by exhaustion alike
AfterWaitLoop(status) == "create"

\* deploy_production_model / deploy_local_model reach the endpoint phase
EpStart ==
  /\ eph.pc \in {"idle", "done"}
  /\ \E script \in DeployScripts :
       eph' = [EndpointIdle EXCEPT !.pc = "list", !.script = script]
  /\ UNCHANGED <<stage, rmse, endpoint, last, pl, ev>>

\* deploy.py lines 160 and 176: sm.list_endpoints, if existing_endpoints
EpListEndpoints ==
  /\ eph.pc = "list"
  /\ \E existing \in BOOLEAN :
       eph' = [eph EXCEPT !.pc = IF existing THEN "status" ELSE "create",
                        !.path = IF existing THEN "none" ELSE "new"]
  /\ UNCHANGED <<stage, rmse, endpoint, last, pl, ev>>

\* deploy.py lines 177-178 and 198: _get_status and the test on it
EpGetStatus ==
  /\ eph.pc = "status"
  /\ \E answer \in EndpointStatuses :
       eph' = [eph EXCEPT
                !.status = answer,
                !.pc = IF answer \in {"Failed", "OutOfService"}
                       THEN "delete" ELSE "create",
                !.path = IF answer \in {"Failed", "OutOfService"}
                         THEN "recreate" ELSE "update"]
  /\ UNCHANGED <<stage, rmse, endpoint, last, pl, ev>>

\* deploy.py lines 179-185: delete_endpoint, an exception is ignored
EpDelete ==
  /\ eph.pc = "delete"
  /\ eph' = [eph EXCEPT !.pc = "wait", !.deletes = @ + 1, !.i = 0]
  /\ UNCHANGED <<stage, rmse, endpoint, last, pl, ev>>

\* deploy.py lines 186-189: one iteration of the loop: a status poll, then
\* break on NotFound or sleep
EpPoll ==
  /\ eph.pc = "wait"
  /\ LoopContinues(eph.i)
  /\ \E answer \in EndpointStatuses :
       eph' = [eph EXCEPT
                !.status = answer,
                !.polls = @ + 1,
                !.i = @ + 1,
                !.pc = IF answer = "NotFound" THEN AfterWaitLoop(answer)
                       ELSE "wait"]
  /\ UNCHANGED <<stage, rmse, endpoint, last, pl, ev>>

\* deploy.py line 186: the range is exhausted
EpLoopExhausted ==
  /\ eph.pc = "wait"
  /\ ~LoopContinues(eph.i)
  /\ eph' = [eph EXCEPT !.pc = AfterWaitLoop(eph.status)]
  /\ UNCHANGED <<stage, rmse, endpoint, last, pl, ev>>

\* deploy.py lines 190-219 (and 199-215): skl_model.deploy is called; it
\* returns or raises, and the function returns True or False
EpCreate ==
  /\ eph.pc = "create"
  /\ \E ok \in BOOLEAN :
       eph' = [eph EXCEPT !.pc = "done", !.creates = @ + 1,
                        !.result = IF ok THEN "True" ELSE "False"]
  /\ UNCHANGED <<stage, rmse, endpoint, last, pl, ev>>

----------------------------------------------------------------------------

Init ==
  /\ stage = <<>>
  /\ rmse = <<>>
  /\ endpoint = 0
  /\ last = NoRun
  /\ pl = PipelineIdle
  /\ ev = [p \in Evaluators |-> EvaluatorIdle]
  /\ eph = EndpointIdle

Next == Train \/ Evaluate \/ Deploy

Spec == Init /\ [][Next]_vars

\* The scripts as the pipeline runner launches them, one run after another.
NextPipeline ==
  \/ PipelineStart
  \/ PipelineLocalTraining
  \/ PipelineSageMakerTraining
  \/ PipelineEvaluation
  \/ PipelineDeployment
  \/ PipelineMonitoring

SpecPipeline == Init /\ [][NextPipeline]_vars

\* Evaluation runs that overlap: their registry calls interleave with each
\* other and with training and deployment runs.
NextOverlap ==
  \/ Train
  \/ Deploy
  \/ \E p \in Evaluators :
       \/ EvStart(p)
       \/ EvLoadProduction(p)
       \/ EvLoadStaging(p)
       \/ EvScore(p)
       \/ EvGetLatest(p)
       \/ EvTransitionStep(p)

SpecOverlap == Init /\ [][NextOverlap]_vars

\* Two evaluation runs that overlap each other only: training and
\* deployment run while no evaluation is in progress.
NoEvaluationRunning == \A p \in Evaluators : ev[p].pc \in {"idle", "done"}

NextTwoEvaluations ==
  \/ NoEvaluationRunning /\ Train
  \/ NoEvaluationRunning /\ Deploy
  \/ \E p \in Evaluators :
       \/ EvStart(p)
       \/ EvLoadProduction(p)
       \/ EvLoadStaging(p)
       \/ EvScore(p)
       \/ EvGetLatest(p)
       \/ EvTransitionStep(p)

SpecTwoEvaluations == Init /\ [][NextTwoEvaluations]_vars

\* The endpoint phase of the deploy scripts.  The script is a sequential
\* program whose calls return or raise, so it always takes its next step.
NextEndpoint ==
  \/ EpStart
  \/ EpListEndpoints
  \/ EpGetStatus
  \/ EpDelete
  \/ EpPoll
  \/ EpLoopExhausted
  \/ EpCreate

SpecEndpoint == Init /\ [][NextEndpoint]_vars /\ WF_vars(NextEndpoint)

----------------------------------------------------------------------------
\* Properties

\* C1: an evaluation run that finds a Production and a Staging version, the
\* Staging one with the strictly smaller RMSE, ends with outcome Promote, the
\* candidate in Production, the former incumbent Archived and exactly one
\* Production version.
C1_PromoteWhenStrictlyBetter ==
  LET c == get_latest_versions(last.pre, "Staging")
      i == get_latest_versions(last.pre, "Production")
  IN (/\ last.script = "evaluate" /\ last.fail = "none"
      /\ c # 0 /\ i # 0 /\ rmse[c] < rmse[i])
     => /\ last.outcome = "Promote"
        /\ last.cand = c /\ last.inc = i
        /\ stage[c] = "Production"
        /\ stage[i] = "Archived"
        /\ Cardinality(VersionsIn(stage, "Production")) = 1

C1_Witness ==
  /\ last.script = "evaluate" /\ last.fail = "none"
  /\ last.outcome = "Promote"
  /\ last.cand # 0 /\ last.inc # 0
  /\ rmse[last.cand] < rmse[last.inc]
  /\ last.pre[last.cand] = "Staging" /\ last.pre[last.inc] = "Production"
  /\ stage[last.cand] = "Production" /\ stage[last.inc] = "Archived"

\* C2: an evaluation run whose candidate RMSE is greater than or equal to the
\* incumbent's (a tie included) ends with outcome KeepIncumbent and changes no
\* stage: the candidate stays in Staging, the incumbent in Production.
C2_KeepIncumbentOtherwise ==
  LET c == get_latest_versions(last.pre, "Staging")
      i == get_latest_versions(last.pre, "Production")
  IN (/\ last.script = "evaluate" /\ last.fail = "none"
      /\ c # 0 /\ i # 0 /\ rmse[c] >= rmse[i])
     => /\ last.outcome = "KeepIncumbent"
        /\ last.writes = 0
        /\ stage = last.pre
        /\ stage[c] = "Staging"
        /\ stage[i] = "Production"

C2_Witness ==
  /\ last.script = "evaluate" /\ last.fail = "none"
  /\ last.outcome = "KeepIncumbent"
  /\ last.candMetric = last.incMetric
  /\ stage[last.cand] = "Staging" /\ stage[last.inc] = "Production"

\* C3: an evaluation run started with a Staging version and no Production
\* version ends with outcome PromoteNoIncumbent and the candidate in
\* Production.
C3_PromoteNoIncumbent ==
  LET c == get_latest_versions(last.pre, "Staging")
      i == get_latest_versions(last.pre, "Production")
  IN (/\ last.script = "evaluate" /\ last.fail = "none"
      /\ c # 0 /\ i = 0)
     => /\ last.outcome = "PromoteNoIncumbent"
        /\ stage[c] = "Production"

\* C4: an evaluation run started with no Staging version fails with the
\* no-candidate error and attempts no stage-transition write, whatever the
\* Production stage holds.
C4_NoCandidateError ==
  (/\ last.script = "evaluate" /\ last.fail = "none"
   /\ get_latest_versions(last.pre, "Staging") = 0)
  => /\ last.outcome = "NoVersionInStaging"
     /\ last.exit # 0
     /\ last.writes = 0
     /\ stage = last.pre

\* C5: at most one version is in stage Production, after any sequence of
\* training, evaluation and deployment runs.
C5_AtMostOneProduction ==
  Cardinality(VersionsIn(stage, "Production")) <= 1

C5_Witness ==
  /\ Cardinality(VersionsIn(stage, "Production")) = 1
  /\ VersionsIn(stage, "Archived") # {}
  /\ VersionsIn(stage, "Staging") # {}

\* C6: a version enters stage Production only when no Production version
\* exists, or in an evaluation run that computed both metrics and found the
\* candidate's strictly smaller than the incumbent's.
C6_ProductionOnlyIfJustified ==
  [][\A v \in 1..Len(stage) :
       (stage[v] # "Production" /\ stage'[v] = "Production")
       => \/ VersionsIn(stage, "Production") = {}
          \/ /\ last'.script = "evaluate"
             /\ last'.cand = v
             /\ last'.inc = get_latest_versions(stage, "Production")
             /\ last'.candMetric = rmse[v]
             /\ last'.incMetric = rmse[last'.inc]
             /\ last'.candMetric < last'.incMetric]_vars

C6_Witness ==
  /\ last.script = "deploy" /\ last.writes = 1
  /\ VersionsIn(last.pre, "Production") = {}
  /\ last.pre[last.cand] = "Staging"
  /\ stage[last.cand] = "Production"

\* C7: every stage change of a version follows one of the edges
\* None -> Staging, Staging -> Production, Staging -> Archived,
\* Production -> Archived.
C7_StageEdgesOnly ==
  [][\A v \in 1..Len(stage) :
       stage'[v] # stage[v]
       => <<stage[v], stage'[v]>> \in
            {<<"None", "Staging">>, <<"Staging", "Production">>,
             <<"Staging", "Archived">>, <<"Production", "Archived">>}]_vars

C7_Witness ==
  /\ last.script = "train" /\ last.outcome = "Staged"
  /\ VersionsIn(stage, "Archived") # {}
  /\ VersionsIn(stage, "Production") # {}
  /\ stage[Len(stage)] = "Staging"

\* C8: an evaluation run that fails ends with an error status and leaves the
\* registry as it was; a run ends normally only with a decision, and after
\* an injected failure only with KeepIncumbent, the failing step (the
\* registry calls of the promotion branch) not having been reached.
C8_FailureLeavesRegistryUntouched ==
  LET decided == last.outcome \in {"Promote", "KeepIncumbent", "PromoteNoIncumbent"}
  IN last.script = "evaluate"
     => /\ (last.exit = 0) <=> decided
        /\ last.exit # 0 => (stage = last.pre /\ last.writes = 0)
        /\ (last.fail # "none" /\ decided)
           => (/\ last.outcome = "KeepIncumbent"
               /\ last.fail \in {"get_latest", "transition"}
               /\ stage = last.pre)

C8_Witness ==
  /\ last.script = "evaluate" /\ last.fail = "transition"
  /\ last.exit = 1
  /\ last.cand # 0 /\ last.inc # 0
  /\ rmse[last.cand] < rmse[last.inc]
  /\ stage = last.pre
  /\ stage[last.cand] = "Staging" /\ stage[last.inc] = "Production"

\* C10: an evaluation run that directly follows another one (same dataset,
\* no failure in either) leaves every version in the stage the first run
\* left it in.
C10_RetryIdempotent ==
  [][(/\ last.script = "evaluate" /\ last.fail = "none"
      /\ last'.script = "evaluate" /\ last'.fail = "none")
     => stage' = stage]_vars

\* C11: an evaluation run makes no stage-transition call or exactly one: one
\* when its outcome is Promote or PromoteNoIncumbent, none when it keeps the
\* incumbent or fails; the call moves the candidate to Production and the
\* Production versions to Archived, and nothing else in the registry changes.
C11_ZeroOrOneTransition ==
  last.script = "evaluate"
  => /\ last.writes \in {0, 1}
     /\ (last.writes = 1) <=> (last.outcome \in {"Promote", "PromoteNoIncumbent"})
     /\ Len(stage) = Len(last.pre)
     /\ last.writes = 0 => stage = last.pre
     /\ last.writes = 1
        => stage = [v \in 1..Len(last.pre) |->
                      IF v = last.cand THEN "Production"
                      ELSE IF last.pre[v] = "Production" THEN "Archived"
                      ELSE last.pre[v]]

C11_Witness ==
  /\ last.script = "evaluate" /\ last.outcome = "Promote" /\ last.writes = 1
  /\ \E v \in 1..Len(stage) :
       v # last.cand /\ last.pre[v] = "Staging" /\ stage[v] = "Staging"

\* C12: only the evaluation step changes the stage of a version (training
\* and deployment never do), and no step removes a version.
C12_OnlyEvaluationChangesStages ==
  [][/\ Len(stage') >= Len(stage)
     /\ \A v \in 1..Len(stage') :
          stage'[v] # (IF v <= Len(stage) THEN stage[v] ELSE "None")
          => last'.script = "evaluate"]_vars

\* C16: after every successful training run, in each environment, the
\* version the run created is in stage Staging.
C16_TrainedVersionIsStaged ==
  (last.script = "train" /\ last.exit = 0)
  => /\ Len(stage) = Len(last.pre) + 1
     /\ stage[Len(stage)] = "Staging"

\* C17: a deployment run deploys the Production version without a registry
\* write when there is one; otherwise it moves the latest Staging version to
\* Production and deploys it; with neither, or when the Production lookup
\* raises, it fails with no registry write and no endpoint operation.
C17_DeploySelection ==
  [][last'.script = "deploy"
     => LET p == get_latest_versions(stage, "Production")
            s == get_latest_versions(stage, "Staging")
        IN /\ (last'.fail = "none" /\ p # 0)
              => /\ stage' = stage /\ last'.writes = 0
                 /\ endpoint' = p /\ last'.exit = 0
           /\ (last'.fail = "none" /\ p = 0 /\ s # 0)
              => /\ stage' = [stage EXCEPT ![s] = "Production"]
                 /\ last'.writes = 1
                 /\ endpoint' = s /\ last'.exit = 0
           /\ ((p = 0 /\ s = 0) \/ last'.fail = "registry_prod")
              => /\ stage' = stage /\ last'.writes = 0
                 /\ endpoint' = endpoint /\ last'.exit = 1]_vars

C17_Witness ==
  /\ last.script = "deploy" /\ last.fail = "none" /\ last.exit = 0
  /\ last.writes = 0
  /\ endpoint = get_latest_versions(last.pre, "Production")
  /\ VersionsIn(last.pre, "Staging") # {}
  /\ stage = last.pre

\* C13: in every run of the pipeline runner the commands run in the order
\* training (local, then SageMaker in full mode) unless skipped, evaluation,
\* deployment, and monitoring in full mode; none runs twice, and monitoring
\* runs only after a successful deployment.
C13_PipelineOrder ==
  LET training == IF pl.skip THEN <<>>
                  ELSE IF pl.mode = "local" THEN <<"train.py">>
                  ELSE IF pl.mode = "sagemaker" THEN <<"sagemaker_train.py">>
                  ELSE <<"train.py", "sagemaker_train.py">>
      order == training \o <<"evaluate.py", "deploy.py">>
               \o (IF pl.mode = "full" THEN <<"monitor.py">> ELSE <<>>)
  IN /\ Len(pl.log) <= Len(order)
     /\ \A k \in 1..Len(pl.log) :
          /\ pl.log[k][1] = order[k]
          /\ pl.log[k][1] = "monitor.py" => pl.log[k - 1] = <<"deploy.py", 0>>
     /\ pl.pc = "evaluate" => Len(pl.log) = Len(training)
     /\ pl.pc = "deploy" => Len(pl.log) = Len(training) + 1
     /\ pl.pc = "monitor" => Len(pl.log) = Len(training) + 2

C13_Witness ==
  /\ pl.pc = "done" /\ pl.mode = "full" /\ ~pl.skip
  /\ Len(pl.log) = 5
  /\ pl.log[1] = <<"train.py", 0>>
  /\ pl.log[2][1] = "sagemaker_train.py"
  /\ pl.log[5][1] = "monitor.py"

\* C18: when a deployment run succeeds, the version on the endpoint is the
\* version in stage Production; and when a pipeline run ends successfully,
\* the endpoint serves the registry's Production version.
C18_EndpointServesProduction ==
  /\ (last.script = "deploy" /\ last.exit = 0)
     => /\ endpoint # 0
        /\ endpoint = last.cand
        /\ VersionsIn(stage, "Production") = {endpoint}
  /\ (pl.pc = "done" /\ pl.exit = 0)
     => /\ endpoint # 0
        /\ VersionsIn(stage, "Production") = {endpoint}

C18_Witness ==
  /\ pl.pc = "done" /\ pl.exit = 0 /\ pl.mode = "full"
  /\ last.script = "deploy" /\ last.writes = 1
  /\ endpoint = last.cand
  /\ last.pre[endpoint] = "Staging" /\ stage[endpoint] = "Production"

\* C19: in every pipeline run that training did not abort, the deployment
\* command runs exactly once, right after the evaluation command, whether the
\* evaluation succeeded or failed.
C19_EvaluationFailureDoesNotStopDeployment ==
  LET ran(c) == {k \in 1..Len(pl.log) : pl.log[k][1] = c}
      aborted == /\ ~pl.skip /\ pl.mode \in {"local", "sagemaker"}
                 /\ \E k \in 1..Len(pl.log) :
                      /\ pl.log[k][1] \in {"train.py", "sagemaker_train.py"}
                      /\ pl.log[k][2] # 0
  IN /\ Cardinality(ran("deploy.py")) <= 1
     /\ (pl.pc = "done" /\ ~aborted)
        => /\ Cardinality(ran("deploy.py")) = 1
           /\ Cardinality(ran("evaluate.py")) = 1
           /\ \A k \in ran("deploy.py") : k - 1 \in ran("evaluate.py")

C19_Witness ==
  /\ pl.pc = "done"
  /\ \E k \in 1..Len(pl.log) :
       /\ pl.log[k] = <<"evaluate.py", 1>>
       /\ k < Len(pl.log)
       /\ pl.log[k + 1] = <<"deploy.py", 0>>

\* C20: a finished pipeline run has exit status 0 exactly when the deployment
\* command returned 0 and, in local and sagemaker mode with training not
\* skipped, the training command returned 0; a failed training command of
\* those modes ends the run with status 1 before evaluation and deployment;
\* failures of training in full mode, of evaluation and of monitoring do not
\* change the status.
C20_PipelineExitStatus ==
  LET rc(c) == {pl.log[k][2] : k \in {j \in 1..Len(pl.log) : pl.log[j][1] = c}}
      training == rc("train.py") \cup rc("sagemaker_train.py")
      strict == ~pl.skip /\ pl.mode \in {"local", "sagemaker"}
  IN pl.pc = "done"
     => /\ pl.exit \in {0, 1}
        /\ (pl.exit = 0) <=> (/\ rc("deploy.py") = {0}
                              /\ strict => training = {0})
        /\ (strict /\ training # {0})
           => /\ pl.exit = 1
              /\ rc("evaluate.py") = {} /\ rc("deploy.py") = {}
        /\ ~(strict /\ training # {0})
           => \E d \in rc("deploy.py") : pl.exit = IF d = 0 THEN 0 ELSE 1

C20_Witness ==
  /\ pl.pc = "done" /\ pl.exit = 0 /\ pl.mode = "full" /\ ~pl.skip
  /\ Len(pl.log) = 5
  /\ pl.log[1][2] # 0
  /\ pl.log[3] = <<"evaluate.py", 1>>
  /\ pl.log[4] = <<"deploy.py", 0>>
  /\ pl.log[5] = <<"monitor.py", 1>>

\* C14: when two evaluation runs interleave their registry calls, the
\* registry keeps exactly one Production version, and a run moves a version
\* to Production only if its RMSE is strictly smaller than that of the
\* version in Production at the moment of the transition.
C14_ConcurrentEvaluationsSafe ==
  [][\A p \in Evaluators :
       (ev[p].pc = "transition" /\ ev'[p].pc = "done")
       => /\ Cardinality(VersionsIn(stage', "Production")) = 1
          /\ \A v \in 1..Len(stage) :
               (stage[v] # "Production" /\ stage'[v] = "Production")
               => /\ VersionsIn(stage, "Production") # {}
                  /\ \A i \in VersionsIn(stage, "Production") :
                       rmse[v] < rmse[i]]_vars

\* C15: the version an evaluation run moves to Production is the Staging
\* version it scored, also when a training run stages a newer version
\* between the scoring and the lookup of the latest Staging version.
C15_PromotedVersionIsScoredVersion ==
  \A p \in Evaluators :
    ev[p].outcome = "Promote" => ev[p].ver = ev[p].stagV

\* C21: when the existing endpoint is Failed or OutOfService, the wait loop
\* of the deploy scripts ends after at most 60 status polls whatever the
\* service answers, and the creation of the new endpoint is then started
\* exactly once, whether or not NotFound was ever observed.
C21_WaitLoopBounded ==
  /\ [](eph.path = "recreate"
        => /\ eph.polls <= PollLimit
           /\ eph.creates <= 1
           /\ eph.deletes <= 1
           /\ eph.pc \in {"create", "done"} => eph.deletes = 1
           /\ eph.pc = "create" => eph.creates = 0
           /\ eph.pc = "done" => eph.creates = 1)
  /\ (eph.pc = "wait") ~> (eph.pc = "done" /\ eph.creates = 1)

C21_Witness ==
  /\ eph.path = "recreate" /\ eph.pc = "done"
  /\ eph.polls = PollLimit
  /\ eph.status # "NotFound"
  /\ eph.creates = 1

====
